---- MODULE Spec2Model ----
(***************************************************************************)
(* harview (main.py): analysis of HAR capture folders.                     *)
(*                                                                         *)
(* One folder: analyze_har folds every entry of every .har file into a     *)
(* URL -> worst response time mapping and analyze_slowest_urls ranks it.   *)
(* Two folders: both are analysed and compare_performance joins the two    *)
(* mappings on the URLs they share.                                        *)
(*                                                                         *)
(* Strings are sequences of one-character strings, so startswith, endswith *)
(* and the `in` substring test are computed as Python computes them.       *)
(* Times are integers in thousandths of a millisecond: 1004 is 1.004 ms;   *)
(* a value rounded to two decimals is a multiple of 10.  Percentages are   *)
(* integers in tenths of a percent: 505 is 50.5 %.                         *)
(***************************************************************************)
EXTENDS Integers, Sequences, FiniteSets, TLC

VARIABLES
  pc,                  \* position of the module-level script
  filter_assets,       \* --filter-assets given
  folders,             \* the folders of the command line, as their capture files
  first_data,          \* analyze_har(first_folder)
  second_data,         \* analyze_har(second_folder)
  top_n,               \* analyze_slowest_urls' top_n of the last call
  slowest_urls,        \* analyze_slowest_urls' result
  comparison_results   \* compare_performance's result

vars ==
  << pc, filter_assets, folders, first_data, second_data, top_n,
     slowest_urls, comparison_results >>

----------------------------------------------------------------------------
(* Bounds of the model *)

\* most capture files in one folder
MaxFiles ==
  2

\* most entries in one folder, all its files together
MaxEntries ==
  2

\* largest top_n tried besides the script's own 100
MaxTopN ==
  3

----------------------------------------------------------------------------
(* Strings *)

\* str.startswith
StartsWith(s, p) ==
  /\ Len(p) <= Len(s)
  /\ SubSeq(s, 1, Len(p)) = p

\* str.endswith
EndsWith(s, p) ==
  /\ Len(p) <= Len(s)
  /\ SubSeq(s, Len(s) - Len(p) + 1, Len(s)) = p

\* `p in s` for strings
Contains(s, p) ==
  \E i \in 1..(Len(s) - Len(p) + 1) : SubSeq(s, i, i + Len(p) - 1) = p

\* max() of a non-empty set of numbers
Max(S) ==
  CHOOSE x \in S : \A y \in S : y <= x

\* the integer nearest to n / d for d > 0, a tie going to the even one, as
\* Python's round() does on a value that lies exactly half way (a float that
\* only prints as a tie lies on one side of it; the times of the model's
\* captures are no ties)
RoundHalfEven(n, d) ==
  LET q == n \div d
      r == n - q * d
  IN  IF 2 * r < d THEN q
      ELSE IF 2 * r > d THEN q + 1
      ELSE IF q % 2 = 0 THEN q ELSE q + 1

\* round(x, 2) of a time in thousandths of a millisecond
Round2(x) ==
  10 * RoundHalfEven(x, 10)

----------------------------------------------------------------------------
(* The filter's lists *)

static_extensions ==
  << <<".","c","s","s">>,
     <<".","j","s">>,
     <<".","s","v","g">>,
     <<".","p","n","g">>,
     <<".","j","p","g">>,
     <<".","j","p","e","g">>,
     <<".","g","i","f">>,
     <<".","w","e","b","p">>,
     <<".","i","c","o">>,
     <<".","w","o","f","f">>,
     <<".","w","o","f","f","2">>,
     <<".","t","t","f">>,
     <<".","e","o","t">>,
     <<".","o","t","f">>,
     <<".","m","p","3">>,
     <<".","m","p","4">>,
     <<".","a","v","i">>,
     <<".","m","o","v">>,
     <<".","w","m","v">>,
     <<".","f","l","v">>,
     <<".","p","d","f">>,
     <<".","z","i","p">>,
     <<".","r","a","r">>,
     <<".","t","a","r">>,
     <<".","g","z">> >>

static_paths ==
  << <<"/","c","s","s","/">>,
     <<"/","j","s","/">>,
     <<"/","s","v","g","/">>,
     <<"/","i","m","a","g","e","s","/">>,
     <<"/","i","m","g","/">>,
     <<"/","a","s","s","e","t","s","/">>,
     <<"/","s","t","a","t","i","c","/">>,
     <<"/","f","o","n","t","s","/">>,
     <<"/","m","e","d","i","a","/">>,
     <<"_","n","e","x","t","/","s","t","a","t","i","c">> >>

----------------------------------------------------------------------------
(* URLs of the captures *)

\* http://a/x
UrlApi == <<"h","t","t","p",":","/","/","a","/","x">>

\* http://a/y
UrlPage == <<"h","t","t","p",":","/","/","a","/","y">>

\* http://a/x.js
UrlJs == <<"h","t","t","p",":","/","/","a","/","x",".","j","s">>

\* wss://a/s
UrlWss == <<"w","s","s",":","/","/","a","/","s">>

\* ws://a/s
UrlWs == <<"w","s",":","/","/","a","/","s">>

\* http://a/x.js?v=2
UrlJsQuery == <<"h","t","t","p",":","/","/","a","/","x",".","j","s","?","v","=","2">>

\* http://a/p?u=x.js
UrlExtInQuery == <<"h","t","t","p",":","/","/","a","/","p","?","u","=","x",".","j","s">>

\* http://a/p?u=x.js?y
UrlExtMidQuery == <<"h","t","t","p",":","/","/","a","/","p","?","u","=","x",".","j","s","?","y">>

\* http://a/js/x
UrlJsDir == <<"h","t","t","p",":","/","/","a","/","j","s","/","x">>

\* http://a/p?u=/js/x
UrlDirInQuery == <<"h","t","t","p",":","/","/","a","/","p","?","u","=","/","j","s","/","x">>

\* http://a/x.jsx
UrlJsx == <<"h","t","t","p",":","/","/","a","/","x",".","j","s","x">>

\* http://a/x.json?v=2
UrlJsonQuery == <<"h","t","t","p",":","/","/","a","/","x",".","j","s","o","n","?","v","=","2">>

\* http://a/wss://b
UrlWssInPath == <<"h","t","t","p",":","/","/","a","/","w","s","s",":","/","/","b">>

\* http://a/x.js#t
UrlJsFragment == <<"h","t","t","p",":","/","/","a","/","x",".","j","s","#","t">>

\* http://a/x.woff2?v
UrlWoff2Query == <<"h","t","t","p",":","/","/","a","/","x",".","w","o","f","f","2","?","v">>

\* http://a/x.PNG
UrlUpperPng == <<"h","t","t","p",":","/","/","a","/","x",".","P","N","G">>

\* http://a/css
UrlCssNoSlash == <<"h","t","t","p",":","/","/","a","/","c","s","s">>

\* http://a_next/static
UrlNextStatic == <<"h","t","t","p",":","/","/","a","_","n","e","x","t","/","s","t","a","t","i","c">>

\* http://a/x.tar.gz
UrlGz == <<"h","t","t","p",":","/","/","a","/","x",".","t","a","r",".","g","z">>

----------------------------------------------------------------------------
(* JSON values and dicts *)

\* A JSON number or a JSON value that is no number, one entry's "time"
IsNumber(v) ==
  "num" \in DOMAIN v

\* A dict is the sequence of its items in insertion order, keys distinct
Keys(d) ==
  { d[i].url : i \in 1..Len(d) }

\* d[url] of the summary dict analyze_har returns
Get(d, url) ==
  d[CHOOSE i \in 1..Len(d) : d[i].url = url].max_time

\* The stable sort of list.sort(key=..., reverse=True), given the keys of
\* the items: the indices of the items in sorted order, the larger key first,
\* equal keys in the order they had
SortedDescending(keys) ==
  LET Pos(i) ==
        Cardinality({ j \in 1..Len(keys) : keys[j] > keys[i] })
          + Cardinality({ j \in 1..(i - 1) : keys[j] = keys[i] }) + 1
  IN  [ p \in 1..Len(keys) |-> CHOOSE i \in 1..Len(keys) : Pos(i) = p ]

\* The items of a list at the indices kept, in their order
ItemsAt(items, kept) ==
  LET Nth(p) == CHOOSE i \in kept : Cardinality({ j \in kept : j < i }) = p - 1
  IN  [ p \in 1..Cardinality(kept) |-> items[Nth(p)] ]

----------------------------------------------------------------------------
(* analyze_har *)

\* Faulty variant of is_websocket: only wss:// is tested
is_websocket_wss_only(url) ==
  StartsWith(url, <<"w","s","s",":","/","/">>)

\* url.startswith('wss://') or url.startswith('ws://')
is_websocket(url) ==
  \/ StartsWith(url, <<"w","s","s",":","/","/">>)
  \/ StartsWith(url, <<"w","s",":","/","/">>)

\* Faulty variant of is_static: the extension is looked for at the end of
\* the URL only, not before a "?"
is_static_suffix_only(url) ==
  \/ \E i \in 1..Len(static_extensions) : EndsWith(url, static_extensions[i])
  \/ \E i \in 1..Len(static_paths) : Contains(url, static_paths[i])

\* is_static after both loops: an extension at the end of the URL or right
\* before a "?", or a static directory anywhere in the URL
is_static(url) ==
  \/ \E i \in 1..Len(static_extensions) :
       \/ EndsWith(url, static_extensions[i])
       \/ Contains(url, static_extensions[i] \o <<"?">>)
  \/ \E i \in 1..Len(static_paths) : Contains(url, static_paths[i])

\* all_results[url].append(time) on the defaultdict(list)
append_result(all_results, url, time) ==
  IF \E i \in 1..Len(all_results) : all_results[i].url = url
    THEN [ i \in 1..Len(all_results) |->
             IF all_results[i].url = url
               THEN [ all_results[i] EXCEPT !.times = Append(@, time) ]
               ELSE all_results[i] ]
    ELSE Append(all_results, [ url |-> url, times |-> <<time>> ])

\* One pass of the loop over a file's entries, from entry i on.  A KeyError
\* (no request.url, no time) leaves the loop for the except clause of the
\* file, which keeps what was appended and goes on to the next file.
RECURSIVE process_entries(_, _, _, _)
process_entries(entries, i, all_results, filter) ==
  IF i > Len(entries) THEN all_results
  ELSE LET e == entries[i] IN
    IF ~ ("request" \in DOMAIN e /\ "url" \in DOMAIN e.request)
      THEN all_results
    ELSE IF is_websocket(e.request.url)
      THEN process_entries(entries, i + 1, all_results, filter)
    ELSE IF filter /\ is_static(e.request.url)
      THEN process_entries(entries, i + 1, all_results, filter)
    ELSE IF ~ ("time" \in DOMAIN e)
      THEN all_results
    ELSE process_entries(entries, i + 1,
                         append_result(all_results, e.request.url, e.time),
                         filter)

\* The loop over the folder's files, from file k on.  A file that json.load
\* rejects, or that has no log.entries, is skipped by the except clause.
RECURSIVE process_files(_, _, _, _)
process_files(har_files, k, all_results, filter) ==
  IF k > Len(har_files) THEN all_results
  ELSE LET har == har_files[k] IN
    IF ~ ("log" \in DOMAIN har /\ "entries" \in DOMAIN har.log)
      THEN process_files(har_files, k + 1, all_results, filter)
      ELSE process_files(har_files, k + 1,
                         process_entries(har.log.entries, 1, all_results, filter),
                         filter)

\* max(times) and round(.., 2) raise TypeError, outside any try, when a time
\* is no number
summary_raises(all_results) ==
  \E i \in 1..Len(all_results) :
    \E j \in 1..Len(all_results[i].times) : ~ IsNumber(all_results[i].times[j])

\* summary[url] = round(max(times), 2), in all_results' order
summary_of(all_results) ==
  [ i \in 1..Len(all_results) |->
      [ url |-> all_results[i].url,
        max_time |->
          Round2(Max({ all_results[i].times[j].num :
                       j \in 1..Len(all_results[i].times) })) ] ]

\* analyze_har(folder_path, filter_assets) on a folder that exists, given as
\* the files glob found in it: the dict it returns, or the TypeError it raises
analyze_har(har_files, filter) ==
  IF Len(har_files) = 0 THEN [ raised |-> FALSE, summary |-> <<>> ]
  ELSE LET all_results == process_files(har_files, 1, <<>>, filter) IN
    IF summary_raises(all_results)
      THEN [ raised |-> TRUE, summary |-> <<>> ]
      ELSE [ raised |-> FALSE, summary |-> summary_of(all_results) ]

----------------------------------------------------------------------------
(* compare_performance *)

\* set(first_data.keys()) & set(second_data.keys())
common_urls(first, second) ==
  Keys(first) \cap Keys(second)

\* The orders in which `for url in common_urls` may visit a set
IterationOrders(S) ==
  { o \in [ 1..Cardinality(S) -> S ] :
      \A i, j \in 1..Cardinality(S) : i # j => o[i] # o[j] }

\* (time_diff / first_max) * 100 rounded to one decimal when first_max > 0,
\* else 0
percentage_diff(time_diff, first_max) ==
  IF first_max > 0 THEN RoundHalfEven(time_diff * 1000, first_max) ELSE 0

\* The row appended for one common URL
comparison_row(url, first, second, first_name, second_name) ==
  LET first_max  == Get(first, url)
      second_max == Get(second, url)
      time_diff  == second_max - first_max
  IN  [ url |-> url,
        first_avg |-> first_max,
        second_avg |-> second_max,
        time_diff |-> Round2(time_diff),
        percentage_diff |-> percentage_diff(time_diff, first_max),
        first_name |-> first_name,
        second_name |-> second_name ]

\* Faulty variant of compare_performance: a URL whose first value is not
\* positive gets no row instead of a percentage of 0
compare_performance_skipping_zero(first, second, first_name, second_name, order) ==
  LET all == [ i \in 1..Len(order) |->
                 comparison_row(order[i], first, second, first_name, second_name) ]
      rows == ItemsAt(all, { i \in 1..Len(all) : all[i].first_avg > 0 })
      sorted == SortedDescending([ i \in 1..Len(rows) |-> rows[i].time_diff ])
  IN  [ p \in 1..Len(rows) |-> rows[sorted[p]] ]

\* Faulty variant of compare_performance: the rows are left in the order in
\* which the URLs were visited
compare_performance_unsorted(first, second, first_name, second_name, order) ==
  [ i \in 1..Len(order) |->
      comparison_row(order[i], first, second, first_name, second_name) ]

\* compare_performance(first_data, second_data, first_name, second_name),
\* the set common_urls being visited in the order `order`
compare_performance(first, second, first_name, second_name, order) ==
  LET rows == [ i \in 1..Len(order) |->
                  comparison_row(order[i], first, second, first_name, second_name) ]
      sorted == SortedDescending([ i \in 1..Len(order) |-> rows[i].time_diff ])
  IN  [ p \in 1..Len(order) |-> rows[sorted[p]] ]

\* Faulty variant of the script's call: the dicts in the order of the folders
script_comparison_unswapped(first, second, order) ==
  compare_performance(first, second, "first_folder", "second_folder", order)

\* The script's call: compare_performance(second_data, first_data,
\* second_name, first_name)
script_comparison(first, second, order) ==
  compare_performance(second, first, "second_folder", "first_folder", order)

----------------------------------------------------------------------------
(* analyze_slowest_urls *)

\* Faulty variant of analyze_slowest_urls: the sorted list is not cut
analyze_slowest_urls_uncut(folder_data, n) ==
  IF Len(folder_data) = 0 THEN <<>>
  ELSE LET sorted ==
             SortedDescending([ i \in 1..Len(folder_data) |-> folder_data[i].max_time ])
       IN  [ p \in 1..Len(folder_data) |-> folder_data[sorted[p]] ]

\* analyze_slowest_urls(folder_data, folder_name, top_n) for top_n >= 0
analyze_slowest_urls(folder_data, n) ==
  IF Len(folder_data) = 0 THEN <<>>
  ELSE LET sorted ==
             SortedDescending([ i \in 1..Len(folder_data) |-> folder_data[i].max_time ])
           url_performance ==
             [ p \in 1..Len(folder_data) |-> folder_data[sorted[p]] ]
       IN  SubSeq(url_performance, 1, IF n < Len(url_performance)
                                        THEN n ELSE Len(url_performance))

----------------------------------------------------------------------------
(* The captures the model reads *)

\* An entry of log.entries with both fields
Entry(url, time) ==
  [ request |-> [ url |-> url ], time |-> [ num |-> time ] ]

\* Entries of the folders analysed alone: well-formed ones, a negative time,
\* a time that is no number, an entry without time, an entry without request
CaptureEntries ==
  { Entry(UrlApi, 1004), Entry(UrlApi, 2506), Entry(UrlApi, -2500),
    [ request |-> [ url |-> UrlApi ], time |-> [ str |-> "n/a" ] ],
    [ request |-> [ url |-> UrlApi ] ],
    [ time |-> [ num |-> 1004 ] ],
    Entry(UrlJs, 0), Entry(UrlJs, 2506), Entry(UrlWss, 2506) }

\* URLs that exercise every branch of the two filters
FilterURLs ==
  { UrlApi, UrlPage, UrlJs, UrlWss, UrlWs, UrlJsQuery, UrlExtInQuery,
    UrlExtMidQuery, UrlJsDir, UrlDirInQuery, UrlJsx, UrlJsonQuery,
    UrlWssInPath, UrlJsFragment, UrlWoff2Query, UrlUpperPng, UrlCssNoSlash,
    UrlNextStatic, UrlGz }

\* Entries of the folders compared with one another
ComparedEntries ==
  { Entry(UrlApi, 1004), Entry(UrlApi, 2506), Entry(UrlApi, -2500),
    Entry(UrlJs, 0), Entry(UrlJs, 2506) }

SeqsUpTo(S, n) ==
  UNION { [ 1..k -> S ] : k \in 0..n }

\* A capture file json.load accepts, and one it does not
HarFile(entries) ==
  [ log |-> [ entries |-> entries ] ]

BrokenFile ==
  [ error |-> "Expecting value" ]

\* How a folder's entries lie in its files: per file its number of entries,
\* or -1 for a broken file
RECURSIVE EntriesBefore(_, _)
EntriesBefore(layout, k) ==
  IF k <= 1 THEN 0
  ELSE EntriesBefore(layout, k - 1)
         + (IF layout[k - 1] < 0 THEN 0 ELSE layout[k - 1])

LayoutsOf ==
  [ n \in 0..MaxEntries |->
      { l \in SeqsUpTo((-1)..MaxEntries, MaxFiles) :
          EntriesBefore(l, Len(l) + 1) = n } ]

FolderOf(entries, layout) ==
  [ k \in 1..Len(layout) |->
      IF layout[k] < 0 THEN BrokenFile
      ELSE HarFile(SubSeq(entries, EntriesBefore(layout, k) + 1,
                          EntriesBefore(layout, k) + layout[k])) ]

\* Folders analysed alone
SingleFolders ==
  UNION { { FolderOf(s, l) : l \in LayoutsOf[Len(s)] } :
          s \in SeqsUpTo(CaptureEntries, MaxEntries) }
    \cup { << HarFile(<< Entry(u, 1004) >>) >> : u \in FilterURLs }

\* Folders compared with one another: one capture file each
ComparedFolders ==
  { << HarFile(s) >> : s \in SeqsUpTo(ComparedEntries, MaxEntries) }

\* top_n: the script passes 100
TopNs ==
  0..MaxTopN \cup { 100 }

----------------------------------------------------------------------------
(* The script *)

Init ==
  /\ pc = "analyze_first"
  /\ filter_assets \in BOOLEAN
  /\ folders \in { << f >> : f \in SingleFolders }
                   \cup { << f, g >> : f \in ComparedFolders, g \in ComparedFolders }
  /\ first_data = <<>>
  /\ second_data = <<>>
  /\ top_n = 0
  /\ slowest_urls = <<>>
  /\ comparison_results = <<>>

\* folder_data = analyze_har(folder_path, filter_assets), or
\* first_data = analyze_har(first_folder, filter_assets)
AnalyzeFirst ==
  /\ pc = "analyze_first"
  /\ LET r == analyze_har(folders[1], filter_assets) IN
       IF r.raised
         THEN /\ pc' = "traceback"
              /\ UNCHANGED first_data
         ELSE /\ first_data' = r.summary
              /\ pc' = IF Len(folders) = 1 THEN "single" ELSE "analyze_second"
  /\ UNCHANGED << filter_assets, folders, second_data, top_n, slowest_urls,
                  comparison_results >>

\* if folder_data: slowest_urls = analyze_slowest_urls(folder_data, folder_name, 100)
RankSlowest ==
  /\ pc = "single"
  /\ Len(first_data) > 0
  /\ \E n \in TopNs :
       /\ top_n' = n
       /\ slowest_urls' = analyze_slowest_urls(first_data, n)
  /\ pc' = "exit"
  /\ UNCHANGED << filter_assets, folders, first_data, second_data,
                  comparison_results >>

\* else: print, sys.exit(0)
NoData ==
  /\ pc = "single"
  /\ Len(first_data) = 0
  /\ pc' = "exit"
  /\ UNCHANGED << filter_assets, folders, first_data, second_data, top_n,
                  slowest_urls, comparison_results >>

\* second_data = analyze_har(second_folder, filter_assets)
AnalyzeSecond ==
  /\ pc = "analyze_second"
  /\ LET r == analyze_har(folders[2], filter_assets) IN
       IF r.raised
         THEN /\ pc' = "traceback"
              /\ UNCHANGED second_data
         ELSE /\ second_data' = r.summary
              /\ pc' = "compare"
  /\ UNCHANGED << filter_assets, folders, first_data, top_n, slowest_urls,
                  comparison_results >>

\* comparison_results = compare_performance(second_data, first_data,
\*                                          second_name, first_name)
Compare ==
  /\ pc = "compare"
  /\ \E order \in IterationOrders(common_urls(second_data, first_data)) :
       comparison_results' = script_comparison(first_data, second_data, order)
  /\ pc' = "exit"
  /\ UNCHANGED << filter_assets, folders, first_data, second_data, top_n,
                  slowest_urls >>

Next ==
  \/ AnalyzeFirst
  \/ RankSlowest
  \/ NoData
  \/ AnalyzeSecond
  \/ Compare

Spec ==
  Init /\ [][Next]_vars

----------------------------------------------------------------------------
(* What the claims speak of *)

\* The folders analyze_har has returned a dict for, each with that dict
Returned ==
  (IF pc \in { "single", "analyze_second", "compare", "exit" }
     THEN { << folders[1], first_data >> } ELSE {})
    \cup (IF pc = "compare" \/ (pc = "exit" /\ Len(folders) = 2)
            THEN { << folders[2], second_data >> } ELSE {})

\* The script has compared two folders
Compared ==
  pc = "exit" /\ Len(folders) = 2

\* The files of a folder that parse, as indices
ParsedFiles(folder) ==
  { k \in 1..Len(folder) : "log" \in DOMAIN folder[k] }

HasUrl(e) ==
  "request" \in DOMAIN e /\ "url" \in DOMAIN e.request

HasTime(e) ==
  "time" \in DOMAIN e

\* The entries of a folder, as << file, index >>
Places(folder) ==
  { << k, i >> \in (1..Len(folder)) \X (1..MaxEntries + 1) :
      k \in ParsedFiles(folder) /\ i <= Len(folder[k].log.entries) }

EntryAt(folder, p) ==
  folder[p[1]].log.entries[p[2]]

\* The URL begins with ws:// or wss://
SocketUrl(url) ==
  \/ Len(url) >= 5 /\ SubSeq(url, 1, 5) = <<"w","s",":","/","/">>
  \/ Len(url) >= 6 /\ SubSeq(url, 1, 6) = <<"w","s","s",":","/","/">>

\* Two dicts map the same URLs to the same values
SameMapping(d, e) ==
  /\ Keys(d) = Keys(e)
  /\ \A u \in Keys(d) : Get(d, u) = Get(e, u)

----------------------------------------------------------------------------
(* C1 *)

\* An entry's URL passes both filters
SurvivesFiltering(url, filter) ==
  ~ is_websocket(url) /\ ~ (filter /\ is_static(url))

\* The times of the entries of a folder that carry the URL and a number as
\* their time, in whatever file and at whatever place they stand
ContributedTimes(folder, url) ==
  { EntryAt(folder, p).time.num :
      p \in { q \in Places(folder) :
                /\ HasUrl(EntryAt(folder, q))
                /\ EntryAt(folder, q).request.url = url
                /\ HasTime(EntryAt(folder, q))
                /\ IsNumber(EntryAt(folder, q).time) } }

UrlsOf(folder) ==
  { EntryAt(folder, p).request.url :
      p \in { q \in Places(folder) : HasUrl(EntryAt(folder, q)) } }

\* C1: the dict analyze_har returns for a folder has as keys exactly the
\* URLs that survive filtering and have a contributing entry in some file of
\* the folder, and maps each to the largest time among all those entries,
\* rounded to two decimals. The files and the entries enter as a set, so the
\* value is the same for every ordering of them.
C1_WorstOfAllEntries ==
  \A r \in Returned :
    \A u \in UrlsOf(r[1]) \cup Keys(r[2]) :
      LET times == IF SurvivesFiltering(u, filter_assets)
                     THEN ContributedTimes(r[1], u) ELSE {}
      IN  /\ u \in Keys(r[2]) <=> times # {}
          /\ u \in Keys(r[2]) /\ times # {} => Get(r[2], u) = Round2(Max(times))

----------------------------------------------------------------------------
(* C9 *)

WellFormed(e) ==
  HasUrl(e) /\ HasTime(e)

\* A folder without its entries that lack request.url or time
WithoutMalformed(folder) ==
  [ k \in 1..Len(folder) |->
      IF k \in ParsedFiles(folder)
        THEN HarFile(ItemsAt(folder[k].log.entries,
                             { i \in 1..Len(folder[k].log.entries) :
                                 WellFormed(folder[k].log.entries[i]) }))
        ELSE folder[k] ]

\* C9: the dict returned for a folder is the one returned for the same
\* folder with its entries that lack request.url or time taken out.
C9_OnlyMalformedEntrySkipped ==
  \A r \in Returned :
    LET clean == analyze_har(WithoutMalformed(r[1]), filter_assets)
    IN  ~ clean.raised => SameMapping(r[2], clean.summary)

----------------------------------------------------------------------------
(* C10 *)

UsableTime(e) ==
  HasTime(e) => IsNumber(e.time) /\ e.time.num >= 0

\* A folder without its entries whose time is negative or no number
WithoutBadTime(folder) ==
  [ k \in 1..Len(folder) |->
      IF k \in ParsedFiles(folder)
        THEN HarFile(ItemsAt(folder[k].log.entries,
                             { i \in 1..Len(folder[k].log.entries) :
                                 UsableTime(folder[k].log.entries[i]) }))
        ELSE folder[k] ]

\* C10: analyze_har raises nothing, and the dict returned for a folder is
\* the one returned for the same folder with its entries whose time is
\* negative or no number taken out.
C10_BadTimeSkipped ==
  /\ pc # "traceback"
  /\ \A r \in Returned :
       SameMapping(r[2], analyze_har(WithoutBadTime(r[1]), filter_assets).summary)

----------------------------------------------------------------------------
(* C8 *)

\* C8: no key of a dict analyze_har returned begins with ws:// or wss://,
\* with filter_assets on or off.
C8_NoSocketUrlAggregated ==
  \A u \in Keys(first_data) \cup Keys(second_data) : ~ SocketUrl(u)

\* A folder with a socket entry and an entry of another URL in one file was
\* analysed, and only the other URL is a key
C8_Witness ==
  /\ pc = "exit"
  /\ Len(folders) = 1
  /\ \E p \in Places(folders[1]) :
       /\ WellFormed(EntryAt(folders[1], p))
       /\ SocketUrl(EntryAt(folders[1], p).request.url)
  /\ Keys(first_data) # {}

----------------------------------------------------------------------------
(* C7 *)

\* The URL ends with one of the listed extensions
EndsWithExtension(url) ==
  \E i \in 1..Len(static_extensions) :
    /\ Len(url) >= Len(static_extensions[i])
    /\ \A j \in 1..Len(static_extensions[i]) :
         url[Len(url) - Len(static_extensions[i]) + j] = static_extensions[i][j]

\* The URL holds one of the listed path markers
HoldsPathMarker(url) ==
  \E i \in 1..Len(static_paths) :
    \E at \in 0..(Len(url) - Len(static_paths[i])) :
      \A j \in 1..Len(static_paths[i]) : url[at + j] = static_paths[i][j]

\* The URL without its query string: what stands before its first "?"
WithoutQuery(url) ==
  IF \E i \in 1..Len(url) : url[i] = "?"
    THEN SubSeq(url, 1, (CHOOSE i \in 1..Len(url) :
                           url[i] = "?" /\ \A j \in 1..(i - 1) : url[j] # "?") - 1)
    ELSE url

\* The rule as the claim states it
StatedRule(url) ==
  EndsWithExtension(WithoutQuery(url)) \/ HoldsPathMarker(url)

\* The rule of the code: the whole URL ends with an extension, or what stands
\* before some "?" of it does, or the URL holds a path marker
CodeRule(url) ==
  \/ EndsWithExtension(url)
  \/ \E i \in 1..Len(url) : url[i] = "?" /\ EndsWithExtension(SubSeq(url, 1, i - 1))
  \/ HoldsPathMarker(url)

\* The entries the loop is sure to reach and to decide by the filters alone:
\* well-formed, in a file that parses, after well-formed entries only
DecidedByFilter(folder) ==
  { p \in Places(folder) :
      \A i \in 1..p[2] : WellFormed(folder[p[1]].log.entries[i]) }

\* The URLs of those entries that are no socket URLs, each with the dict
\* returned for its folder
FilterCases ==
  UNION { { << EntryAt(r[1], p).request.url, r[2] >> :
              p \in { q \in DecidedByFilter(r[1]) :
                        ~ SocketUrl(EntryAt(r[1], q).request.url) } } :
          r \in Returned }

\* C7 as stated: with filter_assets, an entry whose URL is no socket URL is
\* dropped exactly when its URL without the query string ends with a listed
\* extension or its URL holds a listed path marker; without filter_assets
\* none is dropped.
C7_DroppedByStatedRule ==
  \A c \in FilterCases :
    c[1] \notin Keys(c[2]) <=> (filter_assets /\ StatedRule(c[1]))

\* C7 amended: with filter_assets, an entry whose URL is no socket URL is
\* dropped exactly when its URL, query string included, ends with a listed
\* extension, or holds a listed extension right before a "?", or holds a
\* listed path marker; without filter_assets none is dropped.
C7_DroppedByCodeRule ==
  \A c \in FilterCases :
    c[1] \notin Keys(c[2]) <=> (filter_assets /\ CodeRule(c[1]))

\* With filter_assets, a URL whose extension stands in its query string was
\* dropped
C7_Witness ==
  /\ filter_assets
  /\ pc = "exit"
  /\ folders = << << HarFile(<< Entry(UrlExtInQuery, 1004) >>) >> >>
  /\ first_data = <<>>

----------------------------------------------------------------------------
(* C2 *)

RowUrls ==
  { comparison_results[i].url : i \in 1..Len(comparison_results) }

----------------------------------------------------------------------------
(* C3 *)

\* C3: the rows are one for each URL that is a key of both dicts and none
\* for any other URL; with no such URL there is no row.
C3_OneRowPerCommonUrl ==
  Compared =>
    /\ RowUrls = Keys(first_data) \cap Keys(second_data)
    /\ Len(comparison_results) = Cardinality(Keys(first_data) \cap Keys(second_data))

\* Two folders were compared that share a URL while one of them has a URL
\* the other lacks
C3_Witness ==
  /\ Compared
  /\ Len(comparison_results) = 1
  /\ Keys(first_data) \ Keys(second_data) # {}

----------------------------------------------------------------------------
(* C4 *)

\* The integer nearest to n / d for d # 0
RoundRatio(n, d) ==
  IF d > 0 THEN RoundHalfEven(n, d) ELSE RoundHalfEven(- n, - d)

\* C4: in every row time_diff is the candidate's value minus the baseline's,
\* and percentage_diff is 0 when the baseline's value is 0 and otherwise
\* time_diff / baseline * 100 rounded to one decimal.
C4_PercentOfBaseline ==
  \A i \in 1..Len(comparison_results) :
    LET row == comparison_results[i]
        delta == row.second_avg - row.first_avg
    IN  /\ row.time_diff = delta
        /\ row.percentage_diff =
             (IF row.first_avg = 0 THEN 0 ELSE RoundRatio(delta * 1000, row.first_avg))

----------------------------------------------------------------------------
(* C5 *)

\* C5: of two adjacent rows the earlier has the time_diff that is greater
\* or equal.
C5_RowsByTimeDiffDescending ==
  \A i \in 1..(Len(comparison_results) - 1) :
    comparison_results[i].time_diff >= comparison_results[i + 1].time_diff

\* Two rows of different time_diff were returned
C5_Witness ==
  /\ Compared
  /\ Len(comparison_results) = 2
  /\ comparison_results[1].time_diff > comparison_results[2].time_diff

----------------------------------------------------------------------------
(* C6 *)

SlowestUrls ==
  { slowest_urls[i].url : i \in 1..Len(slowest_urls) }

\* C6: analyze_slowest_urls returns min(top_n, number of URLs) items, each
\* a URL of the dict with its value, no URL twice, the values never
\* increasing, and no URL left out has a value greater than a returned one;
\* for an empty dict it returns the empty list.
C6_TopNSlowest ==
  /\ \A n \in TopNs : analyze_slowest_urls(<<>>, n) = <<>>
  /\ (pc = "exit" /\ Len(folders) = 1 /\ Len(first_data) > 0) =>
       /\ Len(slowest_urls)
            = (IF top_n < Len(first_data) THEN top_n ELSE Len(first_data))
       /\ \A i \in 1..Len(slowest_urls) :
            /\ slowest_urls[i].url \in Keys(first_data)
            /\ slowest_urls[i].max_time = Get(first_data, slowest_urls[i].url)
       /\ Cardinality(SlowestUrls) = Len(slowest_urls)
       /\ \A i \in 1..(Len(slowest_urls) - 1) :
            slowest_urls[i].max_time >= slowest_urls[i + 1].max_time
       /\ \A u \in Keys(first_data) \ SlowestUrls :
            \A i \in 1..Len(slowest_urls) :
              Get(first_data, u) <= slowest_urls[i].max_time

\* Of a dict of two URLs, the slower one inserted last, the top 1 was asked
C6_Witness ==
  /\ pc = "exit"
  /\ Len(folders) = 1
  /\ top_n = 1
  /\ Len(first_data) = 2
  /\ first_data[1].max_time < first_data[2].max_time
  /\ Len(slowest_urls) = 1

====
